---- MODULE Spec2Model ----
(***************************************************************************)
(* Model of the bar-crawl gateway: the Express handlers of the two entry   *)
(* points of the repository (src/unnamed/part_000 and src/server.js).      *)
(*                                                                         *)
(* JavaScript strings are sequences of one-character strings, so that      *)
(* split, trim, includes, replace, Number, parseFloat and parseInt are     *)
(* computed character by character as the runtime computes them.           *)
(* JavaScript numbers are records [kind, val]: kind "num" carries an       *)
(* integer val, "nan" is NaN, "inf" is +/-Infinity (val is the sign) and   *)
(* "undef" is the value undefined. The numeric literals of the model are   *)
(* optionally signed decimal integers and the literal Infinity.            *)
(***************************************************************************)
EXTENDS Integers, Sequences, FiniteSets, TLC

(***************************************************************************)
(* Strings                                                                 *)
(***************************************************************************)
DigitChars == <<"0", "1", "2", "3", "4", "5", "6", "7", "8", "9">>

IsDigit(c) == \E i \in 1..10 : DigitChars[i] = c

DigitVal(c) == (CHOOSE i \in 1..10 : DigitChars[i] = c) - 1

IsWhite(c) == c = " "

UpperChars == <<"A", "B", "C", "D", "E", "F", "G", "H", "I", "J", "K", "L", "M",
                "N", "O", "P", "Q", "R", "S", "T", "U", "V", "W", "X", "Y", "Z">>

LowerChars == <<"a", "b", "c", "d", "e", "f", "g", "h", "i", "j", "k", "l", "m",
                "n", "o", "p", "q", "r", "s", "t", "u", "v", "w", "x", "y", "z">>

LowerChar(c) ==
    IF \E i \in 1..26 : UpperChars[i] = c
    THEN LowerChars[CHOOSE i \in 1..26 : UpperChars[i] = c]
    ELSE c

\* String.prototype.toLowerCase
ToLowerCase(s) == [i \in 1..Len(s) |-> LowerChar(s[i])]

\* s.startsWith(p, from - 1): p occurs in s at position from (1-based)
OccursAt(s, p, from) ==
    /\ from + Len(p) - 1 <= Len(s)
    /\ \A k \in 1..Len(p) : s[from + k - 1] = p[k]

\* String.prototype.includes
Includes(s, p) == \E i \in 1..(Len(s) + 1) : OccursAt(s, p, i)

\* String.prototype.replace with a string pattern: the first occurrence only
Replace(s, p, r) ==
    IF Includes(s, p)
    THEN LET i == CHOOSE j \in 1..(Len(s) + 1) :
                      OccursAt(s, p, j) /\ \A k \in 1..(j - 1) : ~OccursAt(s, p, k)
         IN SubSeq(s, 1, i - 1) \o r \o SubSeq(s, i + Len(p), Len(s))
    ELSE s

RECURSIVE TrimStart(_)
TrimStart(s) == IF s # <<>> /\ IsWhite(Head(s)) THEN TrimStart(Tail(s)) ELSE s

RECURSIVE TrimEnd(_)
TrimEnd(s) ==
    IF s # <<>> /\ IsWhite(s[Len(s)]) THEN TrimEnd(SubSeq(s, 1, Len(s) - 1)) ELSE s

\* String.prototype.trim
Trim(s) == TrimEnd(TrimStart(s))

\* String.prototype.split with a one-character separator: "" splits to [""]
RECURSIVE Split(_, _)
Split(s, sep) ==
    IF \E i \in 1..Len(s) : s[i] = sep
    THEN LET i == CHOOSE j \in 1..Len(s) :
                      s[j] = sep /\ \A k \in 1..(j - 1) : s[k] # sep
         IN <<SubSeq(s, 1, i - 1)>> \o Split(SubSeq(s, i + 1, Len(s)), sep)
    ELSE <<s>>

\* Array.prototype.join
RECURSIVE Join(_, _)
Join(parts, sep) ==
    IF parts = <<>> THEN <<>>
    ELSE IF Len(parts) = 1 THEN parts[1]
    ELSE parts[1] \o <<sep>> \o Join(Tail(parts), sep)

\* Array.prototype.slice(0, n)
Slice(a, n) == SubSeq(a, 1, IF Len(a) < n THEN Len(a) ELSE n)

(***************************************************************************)
(* Numbers                                                                 *)
(***************************************************************************)
Num(v) == [kind |-> "num", val |-> v]

NaN == [kind |-> "nan", val |-> 0]

Inf(sign) == [kind |-> "inf", val |-> sign]

Undefined == [kind |-> "undef", val |-> 0]

\* Number.isFinite
IsFinite(n) == n.kind = "num"

S_Infinity == <<"I", "n", "f", "i", "n", "i", "t", "y">>

RECURSIVE DigitsValue(_)
DigitsValue(ds) ==
    IF ds = <<>> THEN 0
    ELSE 10 * DigitsValue(SubSeq(ds, 1, Len(ds) - 1)) + DigitVal(ds[Len(ds)])

\* the longest prefix of s made of digits
RECURSIVE DigitPrefix(_)
DigitPrefix(s) ==
    IF s # <<>> /\ IsDigit(Head(s)) THEN <<Head(s)>> \o DigitPrefix(Tail(s)) ELSE <<>>

HasSign(s) == s # <<>> /\ Head(s) \in {"-", "+"}

SignOf(s) == IF s # <<>> /\ Head(s) = "-" THEN -1 ELSE 1

Unsigned(s) == IF HasSign(s) THEN Tail(s) ELSE s

\* Number(string): the whole trimmed string must be a numeric literal, and the
\* empty or blank string converts to 0
ToNumber(s) ==
    LET t == Trim(s)
        u == Unsigned(t)
    IN IF t = <<>> THEN Num(0)
       ELSE IF u = S_Infinity THEN Inf(SignOf(t))
       ELSE IF u # <<>> /\ DigitPrefix(u) = u THEN Num(SignOf(t) * DigitsValue(u))
       ELSE NaN

\* parseFloat(string): the longest numeric prefix after leading white space
ParseFloat(s) ==
    LET t == TrimStart(s)
        u == Unsigned(t)
    IN IF OccursAt(u, S_Infinity, 1) THEN Inf(SignOf(t))
       ELSE IF DigitPrefix(u) # <<>> THEN Num(SignOf(t) * DigitsValue(DigitPrefix(u)))
       ELSE NaN

\* parseInt(string): the longest integer prefix after leading white space
ParseInt(s) ==
    LET t == TrimStart(s)
        u == Unsigned(t)
    IN IF DigitPrefix(u) # <<>> THEN Num(SignOf(t) * DigitsValue(DigitPrefix(u)))
       ELSE NaN

(***************************************************************************)
(* Query parameters: absent, or a string                                   *)
(***************************************************************************)
Missing == [present |-> FALSE, str |-> <<>>]

Param(s) == [present |-> TRUE, str |-> s]

\* JavaScript truthiness of a query parameter: undefined and "" are falsy
Truthy(p) == p.present /\ p.str # <<>>

(***************************************************************************)
(* parseLatLng                                                             *)
(***************************************************************************)
Null == [isNull |-> TRUE, lat |-> Undefined, lng |-> Undefined]

LatLng(a, b) == [isNull |-> FALSE, lat |-> a, lng |-> b]

\* const [lat, lng] = value.split(',').map(Number)
FirstTwoNumbers(str) ==
    LET toks == Split(str, ",")
    IN <<ToNumber(toks[1]), IF Len(toks) >= 2 THEN ToNumber(toks[2]) ELSE Undefined>>

\* part_000 lines 27-32
parseLatLng(value) ==
    IF ~Truthy(value) THEN Null
    ELSE LET n == FirstTwoNumbers(value.str)
         IN IF ~IsFinite(n[1]) \/ ~IsFinite(n[2]) THEN Null
            ELSE LatLng(n[1], n[2])

(***************************************************************************)
(* State                                                                   *)
(***************************************************************************)
VARIABLES
    file,       \* the entry point that serves: "part_000" or "server"
    hasKey,     \* !!GOOGLE_API_KEY
    pc,         \* "idle", "awaiting" (the handler is suspended at an await), "done"
    op,         \* the route of the request being handled
    query,      \* req.query
    fetches,    \* the fetch calls issued, in order: [req, state, reply]
    joined,     \* the handler's await has resumed (the awaited promise is settled)
    responses,  \* what res has sent, in order
    arg,        \* the argument of a function applied on its own
    ret         \* its result

vars == <<file, hasKey, pc, op, query, fetches, joined, responses, arg, ret>>

Files == {"part_000", "server"}

NoValue == [none |-> TRUE]

(***************************************************************************)
(* Upstream replies. A fetch either rejects (the transport failed) or      *)
(* resolves to a response with a status (ok or not) and a body that        *)
(* response.json() parses or throws on.                                    *)
(***************************************************************************)
Rejected == [rejected |-> TRUE, ok |-> FALSE, parses |-> FALSE, data |-> NoValue]

HTTP(ok, data) == [rejected |-> FALSE, ok |-> ok, parses |-> TRUE, data |-> data]

BadBody(ok) == [rejected |-> FALSE, ok |-> ok, parses |-> FALSE, data |-> NoValue]

\* the error object the Google APIs attach to a failed call
UpstreamError == [code |-> "INVALID_ARGUMENT"]

Pending(req, reply) == [req |-> req, state |-> "pending", reply |-> reply]

\* error.message of what a failed await throws
ThrownMessage(reply) == IF reply.rejected THEN "fetch failed" ELSE "Unexpected token"

(***************************************************************************)
(* Responses                                                               *)
(***************************************************************************)
Response(status, body) == [status |-> status, body |-> body]

\* res.status(code).json({ error: message })
ErrorResponse(status, message) ==
    Response(status, [kind |-> "error", error |-> message])

NotConfigured == ErrorResponse(500, "API key not configured")

(***************************************************************************)
(* Inputs of the model                                                     *)
(***************************************************************************)
\* the longest list of tokens, segments, identifiers or candidates enumerated
\* exhaustively
MaxLen == 2

RECURSIVE SeqsUpTo(_, _)
SeqsUpTo(S, n) ==
    IF n = 0 THEN {<<>>}
    ELSE LET shorter == SeqsUpTo(S, n - 1)
         IN shorter \cup {Append(q, x) : q \in {r \in shorter : Len(r) = n - 1}, x \in S}

\* the list of length n that repeats pattern
Cycle(pattern, n) == [i \in 1..n |-> pattern[((i - 1) % Len(pattern)) + 1]]

NumberTokens ==
    {<<>>, <<" ">>, <<"1">>, <<"-", "2">>, <<" ", "7", " ">>, <<"x">>, <<"1", "x">>,
     S_Infinity}

\* "lat,lng" inputs: one to three tokens joined by commas
CoordStrings == {Join(toks, ",") : toks \in SeqsUpTo(NumberTokens, 3) \ {<<>>}}

CoordParams == {Missing} \cup {Param(s) : s \in CoordStrings}

(***************************************************************************)
(* Initial state: the server is constructed and no request has arrived     *)
(***************************************************************************)
Init ==
    /\ file \in Files
    /\ hasKey \in BOOLEAN
    /\ pc = "idle"
    /\ op = "none"
    /\ query = NoValue
    /\ fetches = <<>>
    /\ joined = FALSE
    /\ responses = <<>>
    /\ arg = NoValue
    /\ ret = NoValue

\* the handler answers without suspending
Answer(r) ==
    /\ pc' = "done"
    /\ responses' = Append(responses, r)
    /\ UNCHANGED <<fetches, joined>>

\* the handler issues its fetch calls and suspends at the await
Await(fs) ==
    /\ pc' = "awaiting"
    /\ fetches' = fs
    /\ UNCHANGED <<responses, joined>>

\* the awaited promise settles and the handler runs to its response
Resume(fs, r) ==
    /\ pc' = "done"
    /\ joined' = TRUE
    /\ fetches' = fs
    /\ responses' = Append(responses, r)

Settle(fs, i) == [fs EXCEPT ![i].state = "settled"]

(***************************************************************************)
(* GET /api/geocode                                                        *)
(***************************************************************************)
Addresses == {Missing, Param(<<>>), Param(<<" ">>), Param(<<"a">>), Param(<<" ", "a">>)}

GeocodeData == {[status |-> "OK"], [status |-> "ZERO_RESULTS"]}

GeocodeReplies ==
    {Rejected, BadBody(TRUE), BadBody(FALSE), HTTP(FALSE, [error |-> UpstreamError])}
        \cup {HTTP(TRUE, d) : d \in GeocodeData}

\* encodeURIComponent(address): undefined is sent as the text "undefined"
GeocodeRequest(address) ==
    [api |-> "geocode",
     address |-> IF address.present THEN address.str
                 ELSE <<"u", "n", "d", "e", "f", "i", "n", "e", "d">>]

\* part_000 line 49: !address || typeof address !== 'string' || !address.trim()
AddressOk(address) == Truthy(address) /\ Trim(address.str) # <<>>

GeocodeAfterFetch(reply) ==
    IF reply.rejected THEN ErrorResponse(500, ThrownMessage(reply))
    ELSE IF file = "part_000" /\ ~reply.ok
    THEN ErrorResponse(502, "Geocode API failed with status")
    ELSE IF ~reply.parses THEN ErrorResponse(500, ThrownMessage(reply))
    ELSE Response(200, [kind |-> "geocode", data |-> reply.data])

\* the handler with the address check ahead of the credential check
Geocode_ValidatesFirst ==
    /\ pc = "idle"
    /\ \E address \in Addresses, reply \in GeocodeReplies :
        /\ op' = "geocode"
        /\ query' = [address |-> address]
        /\ IF file = "part_000" /\ ~AddressOk(address)
           THEN Answer(ErrorResponse(400, "address is required"))
           ELSE IF ~hasKey THEN Answer(NotConfigured)
           ELSE Await(<<Pending(GeocodeRequest(address), reply)>>)
    /\ UNCHANGED <<file, hasKey, arg, ret>>

Geocode ==
    /\ pc = "idle"
    /\ \E address \in Addresses, reply \in GeocodeReplies :
        /\ op' = "geocode"
        /\ query' = [address |-> address]
        /\ IF ~hasKey THEN Answer(NotConfigured)
           ELSE IF file = "part_000" /\ ~AddressOk(address)
           THEN Answer(ErrorResponse(400, "address is required"))
           ELSE Await(<<Pending(GeocodeRequest(address), reply)>>)
    /\ UNCHANGED <<file, hasKey, arg, ret>>

GeocodeResume ==
    /\ pc = "awaiting"
    /\ op = "geocode"
    /\ Resume(Settle(fetches, 1), GeocodeAfterFetch(fetches[1].reply))
    /\ UNCHANGED <<file, hasKey, op, query, arg, ret>>

(***************************************************************************)
(* GET /api/booking/search                                                 *)
(***************************************************************************)
Names == {Missing, Param(<<>>), Param(<<"a">>)}

Locations == {Missing, Param(<<>>), Param(<<"b">>)}

BookingLinks(name, location) ==
    LET searchLocation == IF Truthy(location) THEN location.str ELSE <<>>
        searchQuery == IF searchLocation # <<>>
                       THEN name.str \o <<" ">> \o searchLocation
                       ELSE name.str
    IN [kind |-> "booking",
        venue |-> name.str,
        googleSearchUrl |-> searchQuery \o <<" ", "r", "e", "s", "e", "r", "v", "a",
                                             "t", "i", "o", "n", "s">>,
        sevenroomsUrl |-> name.str]

Booking ==
    /\ pc = "idle"
    /\ \E name \in Names, location \in Locations :
        /\ op' = "booking"
        /\ query' = [name |-> name, location |-> location]
        /\ IF ~Truthy(name) THEN Answer(ErrorResponse(400, "Venue name is required"))
           ELSE Answer(Response(200, BookingLinks(name, location)))
    /\ UNCHANGED <<file, hasKey, arg, ret>>

(***************************************************************************)
(* Upstream place records: every field is optional                         *)
(***************************************************************************)
S_bar == <<"b", "a", "r">>

S_night_club == <<"n", "i", "g", "h", "t", "_", "c", "l", "u", "b">>

S_pub == <<"p", "u", "b">>

S_wine_bar == <<"w", "i", "n", "e", "_", "b", "a", "r">>

S_cocktail_bar == <<"c", "o", "c", "k", "t", "a", "i", "l", "_", "b", "a", "r">>

S_lounge == <<"l", "o", "u", "n", "g", "e">>

S_club == <<"c", "l", "u", "b">>

S_Unknown == <<"U", "n", "k", "n", "o", "w", "n">>

S_PRICE_LEVEL_ == <<"P", "R", "I", "C", "E", "_", "L", "E", "V", "E", "L", "_">>

S_MODERATE == <<"M", "O", "D", "E", "R", "A", "T", "E">>

S_JoesBar == <<"J", "o", "e", "'", "s", " ", "B", "a", "r">>

S_CoffeeHouse == <<"C", "o", "f", "f", "e", "e", " ", "H", "o", "u", "s", "e">>

S_cafe == <<"c", "a", "f", "e">>

S_barber_shop == <<"b", "a", "r", "b", "e", "r", "_", "s", "h", "o", "p">>

NoList == [present |-> FALSE, list |-> <<>>]

List(l) == [present |-> TRUE, list |-> l]

\* a place record of the Places API without its id
RawPlace(primaryType, types, displayName, priceLevel) ==
    [primaryType |-> primaryType, types |-> types, displayName |-> displayName,
     priceLevel |-> priceLevel]

PlaceKinds ==
    {RawPlace(Param(S_night_club), NoList, Missing, Param(S_PRICE_LEVEL_ \o S_MODERATE)),
     RawPlace(Missing, NoList, Param(S_JoesBar), Missing),
     RawPlace(Missing, List(<<S_cafe>>), Param(S_CoffeeHouse), Param(S_PRICE_LEVEL_ \o <<"2">>)),
     RawPlace(Missing, List(<<S_cafe, S_barber_shop>>), Missing, Param(S_PRICE_LEVEL_ \o S_MODERATE)),
     RawPlace(Missing, NoList, Missing, Param(<<>>)),
     RawPlace(Param(S_cafe), List(<<>>), Param(<<"P", "U", "B">>), Param(<<"x">>))}

WithId(place, id) ==
    [id |-> id, primaryType |-> place.primaryType, types |-> place.types,
     displayName |-> place.displayName, priceLevel |-> place.priceLevel]

\* place.priceLevel ? parseInt(place.priceLevel.replace('PRICE_LEVEL_', '')) : 3
PriceLevel(priceLevel) ==
    IF Truthy(priceLevel)
    THEN ParseInt(Replace(priceLevel.str, S_PRICE_LEVEL_, <<>>))
    ELSE Num(3)

\* the venue object both details and nearby map a place to
Venue(place) ==
    [place_id |-> place.id,
     name |-> IF Truthy(place.displayName) THEN place.displayName.str ELSE S_Unknown,
     price_level |-> PriceLevel(place.priceLevel),
     types |-> IF place.types.present THEN place.types.list ELSE <<>>]

barTypes == <<S_bar, S_night_club, S_pub, S_wine_bar, S_cocktail_bar, S_lounge>>

\* the predicate of data.places.filter
isNightlifeVenue(place) ==
    LET primaryType == IF Truthy(place.primaryType) THEN place.primaryType.str ELSE <<>>
        types == IF place.types.present THEN place.types.list ELSE <<>>
        name == ToLowerCase(IF Truthy(place.displayName) THEN place.displayName.str
                            ELSE <<>>)
    IN \E b \in 1..Len(barTypes) :
          \/ Includes(primaryType, barTypes[b])
          \/ \E t \in 1..Len(types) :
                Includes(types[t], barTypes[b]) \/ Includes(types[t], S_bar)
          \/ Includes(name, S_bar)
          \/ Includes(name, S_lounge)
          \/ Includes(name, S_club)
          \/ Includes(name, S_pub)

\* data.places.filter(...): Array.prototype.filter keeps the order
NightlifePlaces(places) == SelectSeq(places, isNightlifeVenue)

\* .map(place => ({...}))
Venues(places) == [i \in 1..Len(places) |-> Venue(places[i])]

(***************************************************************************)
(* GET /api/places/nearby                                                  *)
(***************************************************************************)
maxResultCount == 20

DefaultRadius == 5000

S_default_query ==
    <<"b", "a", "r", " ", "l", "o", "u", "n", "g", "e", " ", "n", "i", "g", "h", "t",
      "c", "l", "u", "b">>

Lats == {Missing, Param(<<>>), Param(<<"1">>), Param(<<"x">>), Param(<<"1", "x">>),
         Param(S_Infinity)}

Lngs == {Missing, Param(<<"-", "2">>), Param(<<"x">>)}

\* the optional inputs, as <<radius, keyword>>
RadiusKeywords ==
    {<<Missing, Missing>>, <<Param(<<"0">>), Param(S_pub)>>, <<Param(<<"7">>), Missing>>,
     <<Param(<<"-", "3">>), Param(S_pub)>>, <<Param(<<"x">>), Param(<<>>)>>}

\* Number.parseFloat(req.query.x): undefined parses as the text "undefined"
ParseFloatParam(p) == IF p.present THEN ParseFloat(p.str) ELSE NaN

SearchRadius(radius) ==
    LET searchRadius == ParseFloatParam(radius)
    IN IF file = "part_000"
       THEN (IF IsFinite(searchRadius) /\ searchRadius.val > 0 THEN searchRadius
             ELSE Num(DefaultRadius))
       ELSE (IF searchRadius.kind = "nan" \/ (IsFinite(searchRadius) /\ searchRadius.val = 0)
             THEN Num(DefaultRadius)
             ELSE searchRadius)

\* the body of the POST to places:searchText
SearchRequest(lat, lng, radius, keyword) ==
    [api |-> "searchText",
     textQuery |-> IF Truthy(keyword) THEN keyword.str ELSE S_default_query,
     maxResultCount |-> maxResultCount,
     latitude |-> ParseFloatParam(lat),
     longitude |-> ParseFloatParam(lng),
     radius |-> SearchRadius(radius)]

\* the places the upstream has for a query, in its relevance order: every short
\* list of place kinds, and long lists that repeat a short pattern. The JSON of
\* the API leaves an empty list out, so a places field that is present is not empty
LongPatterns ==
    {p \in SeqsUpTo({k \in PlaceKinds : Truthy(k.displayName) /\ ~Truthy(k.primaryType)},
                    2) : p # <<>>}

CandidatePools ==
    (SeqsUpTo(PlaceKinds, MaxLen) \ {<<>>})
        \cup {Cycle(p, n) : p \in LongPatterns,
                            n \in {maxResultCount - 1, maxResultCount + 1,
                                   maxResultCount + 2}}

\* the i-th candidate carries the id i
Numbered(pool) == [i \in 1..Len(pool) |-> WithId(pool[i], i)]

SearchData(hasPlaces, places, hasError) ==
    [hasPlaces |-> hasPlaces, places |-> places, hasError |-> hasError,
     error |-> IF hasError THEN UpstreamError ELSE NoValue]

\* the upstream returns at most the maxResultCount candidates it is asked for
SearchReplies(req) ==
    {Rejected, BadBody(TRUE), BadBody(FALSE),
     HTTP(FALSE, SearchData(FALSE, <<>>, TRUE)),
     HTTP(TRUE, SearchData(FALSE, <<>>, TRUE)),
     HTTP(TRUE, SearchData(FALSE, <<>>, FALSE))}
        \cup {HTTP(TRUE, SearchData(TRUE, Slice(Numbered(pool), req.maxResultCount), FALSE)) :
                pool \in CandidatePools}

SearchResults_Reversed(places) ==
    LET kept == Venues(NightlifePlaces(places))
    IN [i \in 1..Len(kept) |-> kept[Len(kept) + 1 - i]]

\* data.places.filter(...).map(...)
SearchResults(places) == Venues(NightlifePlaces(places))

SearchBody(data) ==
    IF data.hasPlaces
    THEN [kind |-> "search", results |-> SearchResults(data.places), status |-> "OK",
          error |-> NoValue]
    ELSE [kind |-> "search", results |-> <<>>,
          status |-> IF data.hasError THEN "ERROR" ELSE "ZERO_RESULTS",
          error |-> data.error]

NearbyAfterFetch(reply) ==
    IF reply.rejected THEN ErrorResponse(500, ThrownMessage(reply))
    ELSE IF file = "part_000" /\ ~reply.ok
    THEN ErrorResponse(502, "Places API failed with status")
    ELSE IF ~reply.parses THEN ErrorResponse(500, ThrownMessage(reply))
    ELSE Response(200, SearchBody(reply.data))

Nearby ==
    /\ pc = "idle"
    /\ \E lat \in Lats, lng \in Lngs, rk \in RadiusKeywords :
       LET radius == rk[1]
           keyword == rk[2]
       IN
        /\ op' = "nearby"
        /\ query' = [lat |-> lat, lng |-> lng, radius |-> radius, keyword |-> keyword]
        /\ IF ~hasKey THEN Answer(NotConfigured)
           ELSE IF /\ file = "part_000"
                   /\ (~IsFinite(ParseFloatParam(lat)) \/ ~IsFinite(ParseFloatParam(lng)))
           THEN Answer(ErrorResponse(400, "lat and lng must be valid numbers"))
           ELSE \E reply \in SearchReplies(SearchRequest(lat, lng, radius, keyword)) :
                    Await(<<Pending(SearchRequest(lat, lng, radius, keyword), reply)>>)
    /\ UNCHANGED <<file, hasKey, arg, ret>>

NearbyResume ==
    /\ pc = "awaiting"
    /\ op = "nearby"
    /\ Resume(Settle(fetches, 1), NearbyAfterFetch(fetches[1].reply))
    /\ UNCHANGED <<file, hasKey, op, query, arg, ret>>

(***************************************************************************)
(* GET /api/places/details                                                 *)
(***************************************************************************)
MaxDetailIds == 10

IdTokens == {<<>>, <<" ">>, <<"a">>, <<" ", "b", " ">>}

LongIdPatterns == {<<<<"a">>>>, <<<<" ", "b", " ">>, <<>>>>}

\* the ids inputs: short lists of tokens, and lists one longer than the cap
IdsParams ==
    {Missing}
        \cup {Param(Join(toks, ",")) : toks \in SeqsUpTo(IdTokens, MaxLen) \ {<<>>}}
        \cup {Param(Join(Cycle(p, MaxDetailIds + 1), ",")) : p \in LongIdPatterns}

NonEmpty(str) == str # <<>>

\* ids.split(',').map(id => id.trim()).filter(Boolean)
TrimmedIds(str) ==
    LET toks == Split(str, ",")
    IN SelectSeq([i \in 1..Len(toks) |-> Trim(toks[i])], NonEmpty)

\* part_000 lines 151-155, server.js line 116
PlaceIds(ids) ==
    IF file = "part_000"
    THEN Slice(TrimmedIds(ids.str), MaxDetailIds)
    ELSE Slice(Split(ids.str, ","), MaxDetailIds)

LookupRequest(placeId) == [api |-> "placeDetails", placeId |-> placeId]

LookupData(hasError, place) ==
    [hasError |-> hasError, place |-> place,
     error |-> IF hasError THEN UpstreamError ELSE NoValue]

\* the place the upstream holds under an identifier
StoredPlace(placeId) ==
    WithId(RawPlace(Param(S_night_club), NoList, Missing,
                    Param(S_PRICE_LEVEL_ \o S_MODERATE)), placeId)

LookupFailures ==
    {Rejected, BadBody(TRUE), BadBody(FALSE), HTTP(FALSE, LookupData(TRUE, NoValue)),
     HTTP(TRUE, LookupData(TRUE, NoValue))}

LookupReplies(placeId) ==
    LookupFailures \cup {HTTP(TRUE, LookupData(FALSE, StoredPlace(placeId)))}

\* the replies of the lookups of one request, by position: every combination for a
\* short list; for a long one, all found, two of them failing, or all failing
LookupPlans(placeIds) ==
    LET n == Len(placeIds)
        found == [i \in 1..n |-> HTTP(TRUE, LookupData(FALSE, StoredPlace(placeIds[i])))]
    IN IF n <= MaxLen
       THEN {plan \in [1..n -> UNION {LookupReplies(placeIds[i]) : i \in 1..n}] :
                \A i \in 1..n : plan[i] \in LookupReplies(placeIds[i])}
       ELSE {found,
             [i \in 1..n |-> IF i = 2 THEN HTTP(FALSE, LookupData(TRUE, NoValue))
                             ELSE IF i = n - 1 THEN HTTP(TRUE, LookupData(TRUE, NoValue))
                             ELSE found[i]],
             [i \in 1..n |-> IF i = 3 THEN Rejected ELSE found[i]]}

Thrown(message) == [thrown |-> TRUE, isNull |-> FALSE, message |-> message, venue |-> NoValue]

Dropped == [thrown |-> FALSE, isNull |-> TRUE, message |-> "", venue |-> NoValue]

Found(venue) == [thrown |-> FALSE, isNull |-> FALSE, message |-> "", venue |-> venue]

\* the async function of placeIds.map: what one lookup resolves to or throws
LookupOutcome(reply) ==
    IF reply.rejected THEN Thrown(ThrownMessage(reply))
    ELSE IF file = "part_000" /\ ~reply.ok THEN Dropped
    ELSE IF ~reply.parses THEN Thrown(ThrownMessage(reply))
    ELSE IF reply.data.hasError THEN Dropped
    ELSE Found(Venue(reply.data.place))

IsFound(outcome) == ~outcome.isNull

VenueOf(outcome) == outcome.venue

\* results.filter(Boolean), over the array Promise.all resolves to
DetailsBody(fs) ==
    [kind |-> "details",
     results |-> LET results == [i \in 1..Len(fs) |-> LookupOutcome(fs[i].reply)]
                     kept == SelectSeq(results, IsFound)
                 IN [i \in 1..Len(kept) |-> VenueOf(kept[i])],
     status |-> "OK"]

Details ==
    /\ pc = "idle"
    /\ \E ids \in IdsParams :
        /\ op' = "details"
        /\ query' = [ids |-> ids]
        /\ IF ~hasKey THEN Answer(NotConfigured)
           ELSE IF ~Truthy(ids) THEN Answer(ErrorResponse(400, "Missing ids parameter"))
           ELSE IF file = "part_000" /\ PlaceIds(ids) = <<>>
           THEN Answer(ErrorResponse(400, "No valid ids provided"))
           ELSE \E plan \in LookupPlans(PlaceIds(ids)) :
                    Await([i \in 1..Len(PlaceIds(ids)) |->
                             Pending(LookupRequest(PlaceIds(ids)[i]), plan[i])])
    /\ UNCHANGED <<file, hasKey, arg, ret>>

\* every lookup that throws answers the request itself, also after the join
LookupSettles_AnswersEachFailure ==
    /\ op = "details"
    /\ \E i \in 1..Len(fetches) :
        /\ fetches[i].state = "pending"
        /\ LET fs == Settle(fetches, i)
               outcome == LookupOutcome(fetches[i].reply)
           IN IF outcome.thrown
              THEN Resume(fs, ErrorResponse(500, outcome.message))
              ELSE IF ~joined /\ \A j \in 1..Len(fs) : fs[j].state = "settled"
              THEN Resume(fs, Response(200, DetailsBody(fs)))
              ELSE /\ fetches' = fs
                   /\ UNCHANGED <<pc, joined, responses>>
    /\ UNCHANGED <<file, hasKey, op, query, arg, ret>>

\* one lookup settles; Promise.all rejects with the first rejection and resolves
\* when the last lookup has resolved
LookupSettles ==
    /\ op = "details"
    /\ \E i \in 1..Len(fetches) :
        /\ fetches[i].state = "pending"
        /\ LET fs == Settle(fetches, i)
               outcome == LookupOutcome(fetches[i].reply)
           IN IF joined
              THEN /\ fetches' = fs
                   /\ UNCHANGED <<pc, joined, responses>>
              ELSE IF outcome.thrown
              THEN Resume(fs, ErrorResponse(500, outcome.message))
              ELSE IF \A j \in 1..Len(fs) : fs[j].state = "settled"
              THEN Resume(fs, Response(200, DetailsBody(fs)))
              ELSE /\ fetches' = fs
                   /\ UNCHANGED <<pc, joined, responses>>
    /\ UNCHANGED <<file, hasKey, op, query, arg, ret>>

NextDetails ==
    \/ Details
    \/ LookupSettles

SpecDetails == Init /\ [][NextDetails]_vars

(***************************************************************************)
(* formatDuration, formatDistance: the text is kept as its parts           *)
(***************************************************************************)
\* Math.round(seconds / 60), then "m mins" or "h hr m mins"
formatDuration(seconds) ==
    LET mins == (seconds + 30) \div 60
    IN IF mins < 60 THEN <<mins, "mins">>
       ELSE <<mins \div 60, "hr", mins % 60, "mins">>

\* "m m", or the kilometres to one decimal place as <<units, tenths, "km">>
formatDistance(meters) ==
    IF meters < 1000 THEN <<meters, "m">>
    ELSE LET tenths == (meters + 50) \div 100
         IN <<tenths \div 10, tenths % 10, "km">>

(***************************************************************************)
(* GET /api/directions                                                     *)
(***************************************************************************)
MaxWaypoints == 8

C_1_m2 == <<"1", ",", "-", "2">>

C_m2_1 == <<"-", "2", ",", "1">>

Origins ==
    {Missing, Param(<<>>), Param(C_1_m2), Param(<<"x", ",", "1">>), Param(<<"1">>),
     Param(<<"1", ",">>), Param(<<" ", "7", " ", ",", "1">>),
     Param(S_Infinity \o <<",", "1">>)}

Destinations == {Missing, Param(C_m2_1), Param(<<"1", ",", "x">>)}

WaypointSegments == {<<>>, C_1_m2, C_m2_1, <<"x">>, <<"1", ",">>}

LongWaypointPatterns == {<<C_1_m2, C_m2_1>>, <<C_m2_1, <<"x">>>>}

\* the waypoints inputs: short lists of segments, and lists longer than the cap
WaypointParams ==
    {Missing}
        \cup {Param(Join(segs, "|")) : segs \in SeqsUpTo(WaypointSegments, MaxLen) \ {<<>>}}
        \cup {Param(Join(Cycle(p, MaxWaypoints + 1), "|")) : p \in LongWaypointPatterns}

NotNull(x) == ~x.isNull

\* waypoints.split('|').map(parseLatLng).filter(Boolean)
ParsedSegments(str) ==
    LET segs == Split(str, "|")
    IN SelectSeq([i \in 1..Len(segs) |-> parseLatLng(Param(segs[i]))], NotNull)

\* server.js lines 156-157, 167: const [lat, lng] = x.split(',').map(Number)
UncheckedPair(str) == LET n == FirstTwoNumbers(str) IN LatLng(n[1], n[2])

\* waypoints.split('|').map(wp => ...), without a check
UncheckedSegments(str) ==
    LET segs == Split(str, "|") IN [i \in 1..Len(segs) |-> UncheckedPair(segs[i])]

\* part_000 lines 213-217, server.js lines 166-169
ParsedWaypoints(waypoints) ==
    IF file = "part_000"
    THEN Slice(ParsedSegments(waypoints.str), MaxWaypoints)
    ELSE UncheckedSegments(waypoints.str)

\* requestBody.intermediates, absent when no waypoint is carried
Intermediates(waypoints) ==
    IF ~Truthy(waypoints) THEN NoList
    ELSE IF file = "part_000" /\ ParsedWaypoints(waypoints) = <<>> THEN NoList
    ELSE List(ParsedWaypoints(waypoints))

RouteRequest(origin, destination, waypoints) ==
    [api |-> "computeRoutes", origin |-> origin, destination |-> destination,
     travelMode |-> "DRIVE", intermediates |-> Intermediates(waypoints)]

NoNumber == [present |-> FALSE, val |-> 0]

Given(v) == [present |-> TRUE, val |-> v]

RawLeg(duration, distanceMeters) ==
    [duration |-> duration, distanceMeters |-> distanceMeters]

RawRoute(legs, polyline) == [legs |-> legs, polyline |-> polyline]

Leg_90s == RawLeg(Param(<<"9", "0", "s">>), Given(1500))

Leg_bare == RawLeg(Missing, NoNumber)

\* a route of the Routes API carries one leg per pair of consecutive stops
RouteKinds ==
    {RawRoute(<<Leg_90s>>, Param(<<"p">>)), RawRoute(<<Leg_bare, Leg_90s>>, Missing)}

RouteData(hasRoutes, routes, hasError) ==
    [hasRoutes |-> hasRoutes, routes |-> routes, hasError |-> hasError,
     error |-> IF hasError THEN UpstreamError ELSE NoValue]

RouteReplies ==
    {Rejected, BadBody(TRUE), BadBody(FALSE),
     HTTP(FALSE, RouteData(FALSE, <<>>, TRUE)),
     HTTP(TRUE, RouteData(FALSE, <<>>, TRUE)),
     HTTP(TRUE, RouteData(FALSE, <<>>, FALSE))}
        \cup {HTTP(TRUE, RouteData(TRUE, routes, FALSE)) :
                routes \in SeqsUpTo(RouteKinds, MaxLen)}

\* parseInt(leg.duration?.replace('s', '') || 0)
LegSeconds(leg) ==
    IF Truthy(leg.duration) /\ Replace(leg.duration.str, <<"s">>, <<>>) # <<>>
    THEN ParseInt(Replace(leg.duration.str, <<"s">>, <<>>))
    ELSE Num(0)

LegOut(leg) ==
    LET seconds == LegSeconds(leg)
        meters == IF leg.distanceMeters.present THEN leg.distanceMeters.val ELSE 0
    IN [duration |-> [value |-> seconds,
                      text |-> IF IsFinite(seconds) THEN formatDuration(seconds.val)
                               ELSE <<"NaN", "mins">>],
        distance |-> [value |-> meters, text |-> formatDistance(meters)]]

RouteOut(route) ==
    [legs |-> [l \in 1..Len(route.legs) |-> LegOut(route.legs[l])],
     overview_polyline |-> IF Truthy(route.polyline) THEN route.polyline.str ELSE <<>>]

RoutesBody_Alternates(data) ==
    IF data.hasRoutes /\ Len(data.routes) > 0
    THEN [kind |-> "routes",
          routes |-> [r \in 1..Len(data.routes) |-> RouteOut(data.routes[r])],
          error |-> NoValue]
    ELSE [kind |-> "routes", routes |-> <<>>, error |-> data.error]

\* part_000 lines 240-253
RoutesBody(data) ==
    IF data.hasRoutes /\ Len(data.routes) > 0
    THEN [kind |-> "routes", routes |-> <<RouteOut(data.routes[1])>>, error |-> NoValue]
    ELSE [kind |-> "routes", routes |-> <<>>, error |-> data.error]

DirectionsAfterFetch(reply) ==
    IF reply.rejected THEN ErrorResponse(500, ThrownMessage(reply))
    ELSE IF file = "part_000" /\ ~reply.ok
    THEN ErrorResponse(502, "Routes API failed with status")
    ELSE IF ~reply.parses THEN ErrorResponse(500, ThrownMessage(reply))
    ELSE Response(200, RoutesBody(reply.data))

Directions ==
    /\ pc = "idle"
    /\ \E origin \in Origins, destination \in Destinations, waypoints \in WaypointParams,
          reply \in RouteReplies :
        /\ op' = "directions"
        /\ query' = [origin |-> origin, destination |-> destination,
                     waypoints |-> waypoints]
        /\ IF ~hasKey THEN Answer(NotConfigured)
           ELSE IF file = "part_000"
           THEN (IF parseLatLng(origin).isNull \/ parseLatLng(destination).isNull
                 THEN Answer(ErrorResponse(400, "origin and destination must be lat,lng"))
                 ELSE Await(<<Pending(RouteRequest(parseLatLng(origin),
                                                   parseLatLng(destination), waypoints),
                                      reply)>>))
           ELSE (IF ~origin.present \/ ~destination.present
                 THEN Answer(ErrorResponse(500, "Cannot read properties of undefined"))
                 ELSE Await(<<Pending(RouteRequest(UncheckedPair(origin.str),
                                                   UncheckedPair(destination.str),
                                                   waypoints),
                                      reply)>>))
    /\ UNCHANGED <<file, hasKey, arg, ret>>

DirectionsResume ==
    /\ pc = "awaiting"
    /\ op = "directions"
    /\ Resume(Settle(fetches, 1), DirectionsAfterFetch(fetches[1].reply))
    /\ UNCHANGED <<file, hasKey, op, query, arg, ret>>

NextDirections ==
    \/ Directions
    \/ DirectionsResume

SpecDirections == Init /\ [][NextDirections]_vars

(***************************************************************************)
(* parseLatLng applied on its own                                          *)
(***************************************************************************)
InitParse ==
    /\ file = "part_000"
    /\ hasKey = TRUE
    /\ pc = "idle"
    /\ op = "parseLatLng"
    /\ query = NoValue
    /\ fetches = <<>>
    /\ joined = FALSE
    /\ responses = <<>>
    /\ arg \in CoordParams
    /\ ret = NoValue

ApplyParseLatLng ==
    /\ pc = "idle"
    /\ op = "parseLatLng"
    /\ ret' = parseLatLng(arg)
    /\ pc' = "done"
    /\ UNCHANGED <<file, hasKey, op, query, fetches, joined, responses, arg>>

NextParse == ApplyParseLatLng

SpecParse == InitParse /\ [][NextParse]_vars

Next ==
    \/ Geocode
    \/ GeocodeResume
    \/ Booking
    \/ Nearby
    \/ NearbyResume
    \/ Details
    \/ LookupSettles
    \/ Directions
    \/ DirectionsResume

NextNearby ==
    \/ Nearby
    \/ NearbyResume

SpecNearby == Init /\ [][NextNearby]_vars

Spec == Init /\ [][Next]_vars

\* an issued fetch has not settled yet
CallPending == \E i \in 1..Len(fetches) : fetches[i].state = "pending"

\* a pending fetch settles (resolves or rejects) and the code awaiting it runs on
CallSettles ==
    \E i \in 1..Len(fetches) :
        fetches[i].state = "pending" /\ fetches'[i].state = "settled"

\* weak fairness of CallSettles, WF_vars(CallSettles), with its enabling condition
\* written out as CallPending: a call that stays pending eventually settles.
\* Nothing obliges a request to arrive.
UpstreamCallsSettle == []<>~CallPending \/ []<><<CallSettles>>_vars

FairSpec == Spec /\ UpstreamCallsSettle

(***************************************************************************)
(* The claims. What a claim calls valid, sanitized or successful is stated *)
(* here from the claim's words, apart from the handlers above.             *)
(***************************************************************************)
Configured == hasKey

Answered == pc = "done" /\ Len(responses) = 1

TheResponse == responses[1]

IsClientError(r) == r.body.kind = "error" /\ r.status \in 400..499

\* a token that is a number: not blank, and a finite numeric literal
NumericToken(tok) == Trim(tok) # <<>> /\ IsFinite(ToNumber(tok))

\* a "lat,lng" string: at least two comma-separated tokens, the first two numeric
IsCoordinate(p) ==
    /\ p.present
    /\ LET toks == Split(p.str, ",")
       IN Len(toks) >= 2 /\ NumericToken(toks[1]) /\ NumericToken(toks[2])

CoordinateOf(str) ==
    LET toks == Split(str, ",") IN LatLng(ToNumber(toks[1]), ToNumber(toks[2]))

\* the identifiers of an ids input: trimmed, blanks dropped
RECURSIVE DropBlank(_)
DropBlank(toks) ==
    IF toks = <<>> THEN <<>>
    ELSE IF Trim(Head(toks)) = <<>> THEN DropBlank(Tail(toks))
    ELSE <<Trim(Head(toks))>> \o DropBlank(Tail(toks))

SanitizedIds(ids) == IF ids.present THEN DropBlank(Split(ids.str, ",")) ELSE <<>>

\* the mandatory input of the request is missing or malformed
BadInput ==
    \/ op = "geocode" /\ (~query.address.present \/ Trim(query.address.str) = <<>>)
    \/ op = "nearby" /\ (\/ ~IsFinite(ParseFloatParam(query.lat))
                         \/ ~IsFinite(ParseFloatParam(query.lng)))
    \/ op = "details" /\ SanitizedIds(query.ids) = <<>>
    \/ op = "directions" /\ (\/ parseLatLng(query.origin).isNull
                             \/ parseLatLng(query.destination).isNull)
    \/ op = "booking" /\ ~Truthy(query.name)

\* C1: a request whose mandatory input is missing or malformed is answered with a
\* client error, and no upstream call is issued for it
C1_BadInputIsClientErrorWithoutUpstream ==
    (Configured /\ pc # "idle" /\ BadInput)
        => /\ fetches = <<>>
           /\ Answered
           /\ IsClientError(TheResponse)

\* C1, for the entry point that validates its inputs (part_000)
C1_HoldsInPart000 == file = "part_000" => C1_BadInputIsClientErrorWithoutUpstream

\* a lookup that found its place
LookupSucceeded(reply) ==
    ~reply.rejected /\ reply.ok /\ reply.parses /\ ~reply.data.hasError

\* a lookup that transport-failed or came back with an upstream-reported error
LookupFailed(reply) ==
    \/ reply.rejected
    \/ ~reply.rejected /\ reply.parses /\ reply.data.hasError

RECURSIVE CountSucceeded(_)
CountSucceeded(fs) ==
    IF fs = <<>> THEN 0
    ELSE (IF LookupSucceeded(Head(fs).reply) THEN 1 ELSE 0) + CountSucceeded(Tail(fs))

\* C2: in the details batch every failing lookup is dropped: whatever lookups fail,
\* the request is answered OK with exactly one Venue per successful lookup
C2_FailedLookupsAreDropped ==
    (/\ op = "details"
     /\ fetches # <<>>
     /\ \A i \in 1..Len(fetches) :
           LookupSucceeded(fetches[i].reply) \/ LookupFailed(fetches[i].reply)
     /\ \A i \in 1..Len(fetches) : fetches[i].state = "settled")
        => /\ Answered
           /\ TheResponse.status = 200
           /\ TheResponse.body.kind = "details"
           /\ TheResponse.body.status = "OK"
           /\ Len(TheResponse.body.results) = CountSucceeded(fetches)

\* the upstream call failed at the transport or status level
UpstreamCallFailed(reply) == reply.rejected \/ ~reply.ok

\* the response is a server-side error response (502, or another 5xx status with
\* an error message), not a success-shaped body
IsUpstreamUnavailable(r) == r.body.kind = "error" /\ r.status \in 500..599

\* C3: for geocode, nearby search and directions, a failed upstream call is
\* answered with an upstream-unavailable error (502 or an equivalent server-side
\* error), never with a success-shaped response
C3_UpstreamFailureIsAnError ==
    (/\ op \in {"geocode", "nearby", "directions"}
     /\ pc = "done"
     /\ fetches # <<>>
     /\ UpstreamCallFailed(fetches[1].reply))
        => /\ Answered
           /\ IsUpstreamUnavailable(TheResponse)

\* C3, for the entry point that tests response.ok (part_000 lines 56, 99, 234)
C3_HoldsInPart000 == file = "part_000" => C3_UpstreamFailureIsAnError

LookedUp == [i \in 1..Len(fetches) |-> fetches[i].req.placeId]

\* C4: the lookups issued are exactly one for each of the first 10 identifiers
\* that remain after trimming and dropping blanks, in that order, and no other
C4_LookupsAreTheFirstTenSanitizedIds ==
    (op = "details" /\ pc # "idle")
        => /\ Len(fetches) <= 10
           /\ \A i \in 1..Len(fetches) : Trim(LookedUp[i]) # <<>>
           /\ Configured => LookedUp = Slice(SanitizedIds(query.ids), 10)

\* C4, for the entry point that sanitizes (part_000 lines 151-158)
C4_HoldsInPart000 == file = "part_000" => C4_LookupsAreTheFirstTenSanitizedIds

\* C9: parseLatLng yields a coordinate only for an input whose first two
\* comma-separated tokens are both numeric and finite, and Invalid for every other
C9_ParseOnlyTwoNumericTokens ==
    (op = "parseLatLng" /\ pc = "done")
        => IF IsCoordinate(arg) THEN ret = CoordinateOf(arg.str) ELSE ret = Null

\* the upstream answered the call with a success status and a body that parses
UpstreamSucceeded(reply) == ~reply.rejected /\ reply.ok /\ reply.parses

NightlifeKeywords == {S_bar, S_night_club, S_pub, S_wine_bar, S_cocktail_bar, S_lounge}

NightlifeNameWords == {S_bar, S_lounge, S_club, S_pub}

\* the nightlife classifier: the primary category contains a keyword, or a tag
\* contains a keyword or "bar", or the lower-cased name contains a name word
IsNightlife(candidate) ==
    \/ /\ Truthy(candidate.primaryType)
       /\ \E k \in NightlifeKeywords : Includes(candidate.primaryType.str, k)
    \/ /\ candidate.types.present
       /\ \E t \in 1..Len(candidate.types.list) :
             \E k \in NightlifeKeywords \cup {S_bar} : Includes(candidate.types.list[t], k)
    \/ /\ Truthy(candidate.displayName)
       /\ \E w \in NightlifeNameWords : Includes(ToLowerCase(candidate.displayName.str), w)

\* the candidates of the upstream response, in upstream order
Candidates == IF fetches[1].reply.data.hasPlaces THEN fetches[1].reply.data.places ELSE <<>>

\* the positions at which seq holds the elements of sub, as an increasing list
IsSubsequenceAt(sub, seq, at) ==
    /\ Len(at) = Len(sub)
    /\ \A j \in 1..Len(at) : at[j] \in 1..Len(seq) /\ sub[j] = seq[at[j]]
    /\ \A j \in 1..(Len(at) - 1) : at[j] < at[j + 1]

RECURSIVE NightlifePositions(_, _)
NightlifePositions(cands, from) ==
    IF from > Len(cands) THEN <<>>
    ELSE (IF IsNightlife(cands[from]) THEN <<from>> ELSE <<>>)
             \o NightlifePositions(cands, from + 1)

ResultIds == [j \in 1..Len(TheResponse.body.results) |-> TheResponse.body.results[j].place_id]

CandidateIds == [i \in 1..Len(Candidates) |-> Candidates[i].id]

SearchAnswered ==
    op = "nearby" /\ pc = "done" /\ fetches # <<>> /\ UpstreamSucceeded(fetches[1].reply)

C5_WitnessFull ==
    SearchAnswered /\ Len(TheResponse.body.results) = 20

\* C6: a search response with an empty result list is tagged ZERO_RESULTS or
\* ERROR, ERROR exactly when the upstream attached an error, and never OK
C6_EmptyResultsAreNeverOK ==
    (/\ op = "nearby"
     /\ Answered
     /\ TheResponse.body.kind = "search"
     /\ TheResponse.body.results = <<>>)
        => /\ TheResponse.body.status \in {"ZERO_RESULTS", "ERROR"}
           /\ TheResponse.body.status = "ERROR" <=> fetches[1].reply.data.hasError

DirectionsAnswered ==
    op = "directions" /\ pc = "done" /\ fetches # <<>>
        /\ UpstreamSucceeded(fetches[1].reply)

UpstreamRoutes ==
    IF fetches[1].reply.data.hasRoutes THEN fetches[1].reply.data.routes ELSE <<>>

\* C7: a successful upstream routing response yields exactly one Route, built from
\* the first candidate route with one leg per leg of it, or, with zero routes, an
\* empty routes list carrying the upstream error; never an error response
C7_OneRouteFromTheFirstOrNoRoute ==
    DirectionsAnswered
        => /\ Answered
           /\ TheResponse.status = 200
           /\ TheResponse.body.kind = "routes"
           /\ IF UpstreamRoutes # <<>>
              THEN /\ Len(TheResponse.body.routes) = 1
                   /\ Len(TheResponse.body.routes[1].legs) = Len(UpstreamRoutes[1].legs)
                   /\ \A l \in 1..Len(UpstreamRoutes[1].legs) :
                         TheResponse.body.routes[1].legs[l].distance.value =
                             (IF UpstreamRoutes[1].legs[l].distanceMeters.present
                              THEN UpstreamRoutes[1].legs[l].distanceMeters.val ELSE 0)
                   /\ TheResponse.body.routes[1].overview_polyline =
                         (IF UpstreamRoutes[1].polyline.present
                          THEN UpstreamRoutes[1].polyline.str ELSE <<>>)
              ELSE /\ TheResponse.body.routes = <<>>
                   /\ TheResponse.body.error = fetches[1].reply.data.error

\* C7 witness: the upstream offered an alternate and the first route, of two legs,
\* was answered alone
C7_Witness ==
    /\ DirectionsAnswered
    /\ Len(UpstreamRoutes) = 2
    /\ UpstreamRoutes[1] # UpstreamRoutes[2]
    /\ Len(UpstreamRoutes[1].legs) = 2
    /\ Len(TheResponse.body.routes) = 1

\* the valid coordinates among the segments: those that do not parse to Invalid
RECURSIVE ValidCoordinates(_)
ValidCoordinates(segs) ==
    IF segs = <<>> THEN <<>>
    ELSE (IF parseLatLng(Param(Head(segs))).isNull THEN <<>>
          ELSE <<parseLatLng(Param(Head(segs)))>>)
             \o ValidCoordinates(Tail(segs))

\* the waypoints of the input
ValidWaypoints(waypoints) ==
    IF waypoints.present THEN ValidCoordinates(Split(waypoints.str, "|")) ELSE <<>>

CarriedWaypoints ==
    IF fetches[1].req.intermediates.present THEN fetches[1].req.intermediates.list
    ELSE <<>>

\* C8: the waypoints sent upstream are the first 8 valid coordinates among the
\* segments of the input, in input order; the waypoints input never fails the
\* request and no non-finite coordinate is sent
C8_WaypointsAreTheFirstEightValid ==
    (op = "directions" /\ pc # "idle" /\ Configured)
        => /\ (~parseLatLng(query.origin).isNull /\ ~parseLatLng(query.destination).isNull)
                 => fetches # <<>>
           /\ fetches # <<>>
                 => /\ CarriedWaypoints = Slice(ValidWaypoints(query.waypoints), 8)
                    /\ \A w \in 1..Len(CarriedWaypoints) :
                          IsFinite(CarriedWaypoints[w].lat) /\ IsFinite(CarriedWaypoints[w].lng)

\* C8, for the entry point that parses its waypoints (part_000 lines 212-223)
C8_HoldsInPart000 == file = "part_000" => C8_WaypointsAreTheFirstEightValid

VenuesAnswered ==
    IF Answered /\ TheResponse.body.kind \in {"search", "details"}
    THEN TheResponse.body.results ELSE <<>>

\* C10: the priceLevel of every Venue is an integer in 0..4
C10_PriceLevelIsAnIntegerFrom0To4 ==
    \A v \in 1..Len(VenuesAnswered) :
        /\ IsFinite(VenuesAnswered[v].price_level)
        /\ VenuesAnswered[v].price_level.val \in 0..4

(***************************************************************************)
(* Absent configuration                                                    *)
(***************************************************************************)
UpstreamDependent == {"geocode", "nearby", "details", "directions"}

IsNotConfiguredError(r) ==
    r.body.kind = "error" /\ r.body.error = "API key not configured"

\* what the booking-links operation answers, whatever the configuration: a client
\* error without a venue name, the links of the venue otherwise
IsBookingAnswer(r) ==
    IF Truthy(query.name)
    THEN r.status = 200 /\ r.body.kind = "booking" /\ r.body.venue = query.name.str
    ELSE IsClientError(r)

\* C11: with no upstream credential, geocode, nearby search, venue details and
\* directions answer at once with the 'not configured' error for every input,
\* valid or not, and issue no upstream call; booking links answers as it does with
\* a credential, without any upstream call.
C11_NoCredentialShortCircuits ==
    /\ (~Configured /\ op \in UpstreamDependent) =>
          /\ Answered
          /\ ~joined
          /\ fetches = <<>>
          /\ IsNotConfiguredError(TheResponse)
    /\ op = "booking" =>
          /\ Answered
          /\ ~joined
          /\ fetches = <<>>
          /\ IsBookingAnswer(TheResponse)

\* a request with valid input was short-circuited
C11_Witness ==
    /\ ~Configured
    /\ op = "directions"
    /\ IsCoordinate(query.origin)
    /\ IsCoordinate(query.destination)
    /\ Answered
    /\ IsNotConfiguredError(TheResponse)

\* booking links were served with no credential
C11_WitnessBooking ==
    /\ ~Configured
    /\ op = "booking"
    /\ Answered
    /\ TheResponse.status = 200

(***************************************************************************)
(* Completion order of the lookups                                         *)
(***************************************************************************)
\* the four lookup outcomes: success, non-success status, upstream error,
\* transport failure
IsTransportFailure(reply) == reply.rejected

IsNonSuccessStatus(reply) == ~reply.rejected /\ ~reply.ok

IsUpstreamReportedError(reply) ==
    ~reply.rejected /\ reply.ok /\ reply.parses /\ reply.data.hasError

NamedOutcome(reply) ==
    \/ LookupSucceeded(reply)
    \/ IsNonSuccessStatus(reply)
    \/ IsUpstreamReportedError(reply)
    \/ IsTransportFailure(reply)

\* a details request over a sanitized identifier list has been answered after
\* its lookups were issued
DetailsJoined ==
    /\ Configured
    /\ op = "details"
    /\ joined
    /\ Answered
    /\ LookedUp = Slice(SanitizedIds(query.ids), MaxDetailIds)

\* the identifiers whose lookups succeeded, in input order
RECURSIVE SucceededIds(_)
SucceededIds(fs) ==
    IF fs = <<>> THEN <<>>
    ELSE (IF LookupSucceeded(Head(fs).reply) THEN <<Head(fs).req.placeId>> ELSE <<>>)
             \o SucceededIds(Tail(fs))

Throws(f) == LookupOutcome(f.reply).thrown

\* the response of the interleaving in which the lookups complete in input order
InOrderResponse ==
    IF \E i \in 1..Len(fetches) : Throws(fetches[i])
    THEN LET first == CHOOSE i \in 1..Len(fetches) :
                          Throws(fetches[i]) /\ \A j \in 1..(i - 1) : ~Throws(fetches[j])
         IN ErrorResponse(500, LookupOutcome(fetches[first].reply).message)
    ELSE Response(200, DetailsBody(fetches))

\* C12: for a fixed identifier list and fixed lookup outcomes (each one of success,
\* non-success status, upstream error, transport failure) the details response is
\* the same whatever the order in which the lookups complete: it is the response
\* of the in-order completion, and its Venues are those of the successful lookups
\* in the input order of their identifiers.
C12_ResponseIsIndependentOfCompletionOrder ==
    (DetailsJoined /\ \A i \in 1..Len(fetches) : NamedOutcome(fetches[i].reply)) =>
        /\ TheResponse = InOrderResponse
        /\ TheResponse.status = 200 =>
              ResultIds = SucceededIds(fetches)

C12_HoldsInPart000 == file = "part_000" => C12_ResponseIsIndependentOfCompletionOrder

\* whenever the batch is answered 200, its Venues are in input order
C12_VenuesKeepInputOrder ==
    (DetailsJoined /\ TheResponse.status = 200
        /\ \A i \in 1..Len(fetches) : NamedOutcome(fetches[i].reply)) =>
        ResultIds = SucceededIds(fetches)

(***************************************************************************)
(* One response for every request                                          *)
(***************************************************************************)
Operations == {"geocode", "booking", "nearby", "details", "directions"}

RequestArrived == op \in Operations

BodyKinds == {"geocode", "booking", "search", "details", "routes"}

\* a result body, or an error that carries a message
IsStructured(r) ==
    \/ r.body.kind = "error" /\ r.body.error # ""
    \/ r.body.kind \in BodyKinds /\ r.status = 200

AllLookupsSettled == \A i \in 1..Len(fetches) : fetches[i].state = "settled"

\* C13: provided every issued upstream call completes or fails, every request to
\* any operation is eventually answered, by exactly one response, which is a result
\* body or an error message; a response once sent is never followed by a second
\* one, also when lookups of a details request settle after one of them has failed.
\* (A request that has arrived stays the request being handled, so 'again and again
\* no request or an answered one' says that every request is eventually answered.)
C13_EveryRequestGetsExactlyOneResponse ==
    /\ [](Len(responses) <= 1)
    /\ [](responses # <<>> => pc = "done" /\ IsStructured(TheResponse))
    /\ [][responses # <<>> => responses' = responses]_vars
    /\ [][RequestArrived => RequestArrived']_vars
    /\ []<>(~RequestArrived \/ (Answered /\ AllLookupsSettled))

\* a details request was answered with the error of a failed lookup while another
\* lookup was still in flight
C13_Witness ==
    /\ op = "details"
    /\ Answered
    /\ joined
    /\ TheResponse.body.kind = "error"
    /\ \E i \in 1..Len(fetches) : fetches[i].state = "pending"

\* every lookup has settled, one of them after the request was answered: the
\* response carries the message of a transport failure although another lookup
\* throws a different one
C13_WitnessLateSettle ==
    /\ op = "details"
    /\ Answered
    /\ AllLookupsSettled
    /\ TheResponse.body.kind = "error"
    /\ TheResponse.body.error = "fetch failed"
    /\ \E i \in 1..Len(fetches) : Throws(fetches[i]) /\ ~fetches[i].reply.rejected

====
